---- MODULE Spec2Model ----
(***************************************************************************)
(* Golf Market Opportunity Explorer (streamlit_app.py).                    *)
(*                                                                         *)
(* The script is re-executed from top to bottom on every widget change.    *)
(* The state is the census file, the st.cache_data memo of load_data, the  *)
(* widget values, and the tables the last script run left behind: the      *)
(* table load_data() returned, df after the in-place column assignments,   *)
(* and the filtered view.                                                  *)
(*                                                                         *)
(* Tables are functions from pandas index labels to rows; a row is a       *)
(* function from column names to cells.  Numeric cells are floats, written *)
(* as pairs <<n, d>>: an exact fraction n/d in lowest terms with d > 0, or *)
(* one of the IEEE specials NaN = <<0,0>>, +inf = <<1,0>>, -inf = <<-1,0>>.*)
(* Arithmetic is exact on fractions; a result that lies exactly on a       *)
(* rounding half is rounded half-to-even as numpy does.                    *)
(***************************************************************************)
EXTENDS Integers, Sequences, FiniteSets, TLC

VARIABLES census, cache, prepared, df, filtered,
          income_threshold, growth_demo_min, selected_regions,
          w_income, w_education, w_diversity, w_size, w_age

vars == <<census, cache, prepared, df, filtered, income_threshold,
          growth_demo_min, selected_regions,
          w_income, w_education, w_diversity, w_size, w_age>>

(***************************************************************************)
(* Bounds of the model.                                                    *)
(***************************************************************************)
\* the census file holds at most this many county rows
MaxCounties == 2

(***************************************************************************)
(* Program constants.                                                      *)
(***************************************************************************)
DefaultIncomeThreshold == 75000
DefaultGrowthDemoMin == 50
DefaultWIncome == 35
DefaultWEducation == 25
DefaultWDiversity == 15
DefaultWSize == 15
DefaultWAge == 10
FipsWidth == 5

\* slider positions explored (each slider ranges over 0..100, the income
\* threshold over 30000..150000 in steps of 5000)
IncomeThresholdValues == {DefaultIncomeThreshold, 80000}
GrowthDemoMinValues == {DefaultGrowthDemoMin, 100}
WIncomeValues == {0, DefaultWIncome, 78, 79}
WEducationValues == {0, DefaultWEducation}
WDiversityValues == {0, DefaultWDiversity}
WSizeValues == {0, DefaultWSize}
WAgeValues == {0, DefaultWAge}

\* a missing region cell of the CSV (pandas reads it as NaN)
NoRegion == "nan"

\* rows the census file is drawn from; populations are of the form 2^k - 1
CountyPool ==
  << [region |-> "South", population |-> 1023, median_income |-> 80000,
      pct_college |-> 10, pct_white |-> 60, median_age |-> 40,
      pct_over_65 |-> 15, fips |-> 1001],
     [region |-> "West", population |-> 1048575, median_income |-> 75000,
      pct_college |-> 10, pct_white |-> 60, median_age |-> 45,
      pct_over_65 |-> 25, fips |-> 6037],
     [region |-> "South", population |-> 1048575, median_income |-> 80000,
      pct_college |-> 40, pct_white |-> 60, median_age |-> 30,
      pct_over_65 |-> 10, fips |-> 48201],
     [region |-> NoRegion, population |-> 0, median_income |-> 40000,
      pct_college |-> 0, pct_white |-> 100, median_age |-> 30,
      pct_over_65 |-> 20, fips |-> 2013] >>

\* census files of up to MaxCounties rows (a row may repeat), rows listed in
\* pool order: nothing in the script reads the order of the rows
CensusFiles ==
  { [i \in DOMAIN pick |-> CountyPool[pick[i]]] :
      pick \in { p \in UNION { [1..n -> DOMAIN CountyPool] : n \in 0..MaxCounties } :
                   \A i \in DOMAIN p : \A j \in DOMAIN p : i <= j => p[i] <= p[j] } }

(***************************************************************************)
(* Floating point cells.                                                   *)
(***************************************************************************)
NaN == <<0, 0>>
PosInf == <<1, 0>>
NegInf == <<-1, 0>>

Abs(n) == IF n < 0 THEN -n ELSE n
Sign(n) == IF n < 0 THEN -1 ELSE IF n > 0 THEN 1 ELSE 0

RECURSIVE GCD(_, _)
GCD(a, b) == IF b = 0 THEN a ELSE GCD(b, a % b)

\* the fraction n/d, d # 0, in lowest terms with a positive denominator
Norm(n, d) ==
  LET g == GCD(Abs(n), Abs(d))
      s == IF d < 0 THEN -1 ELSE 1
  IN  <<(s * n) \div g, (s * d) \div g>>

FromInt(n) == <<n, 1>>
IsNaN(x) == x = NaN
IsFinite(x) == x[2] # 0

FAdd(a, b) ==
  IF IsNaN(a) \/ IsNaN(b) THEN NaN
  ELSE IF ~IsFinite(a) /\ ~IsFinite(b) THEN (IF a = b THEN a ELSE NaN)
  ELSE IF ~IsFinite(a) THEN a
  ELSE IF ~IsFinite(b) THEN b
  ELSE Norm(a[1] * b[2] + b[1] * a[2], a[2] * b[2])

FNeg(a) == <<-a[1], a[2]>>
FSub(a, b) == FAdd(a, FNeg(b))

FMul(a, b) ==
  IF IsNaN(a) \/ IsNaN(b) THEN NaN
  ELSE IF ~IsFinite(a) \/ ~IsFinite(b) THEN <<Sign(a[1]) * Sign(b[1]), 0>>
  ELSE Norm(a[1] * b[1], a[2] * b[2])

\* IEEE division as pandas performs it: x/0 is +-inf, 0/0 is NaN, no exception
FDiv(a, b) ==
  IF IsNaN(a) \/ IsNaN(b) THEN NaN
  ELSE IF ~IsFinite(a) /\ ~IsFinite(b) THEN NaN
  ELSE IF ~IsFinite(a) THEN <<Sign(a[1]) * (IF b[1] < 0 THEN -1 ELSE 1), 0>>
  ELSE IF ~IsFinite(b) THEN FromInt(0)
  ELSE IF b[1] = 0 THEN <<Sign(a[1]), 0>>
  ELSE Norm(a[1] * b[2], a[2] * b[1])

\* a <= b; every comparison with NaN is false
FLe(a, b) ==
  IF IsNaN(a) \/ IsNaN(b) THEN FALSE
  ELSE IF a = b THEN TRUE
  ELSE IF a = NegInf \/ b = PosInf THEN TRUE
  ELSE IF a = PosInf \/ b = NegInf THEN FALSE
  ELSE a[1] * b[2] <= b[1] * a[2]

FGe(a, b) == FLe(b, a)
FLt(a, b) == FLe(a, b) /\ a # b
FGt(a, b) == FLt(b, a)

\* Series.clip(lo, hi): NaN stays NaN
Clip(x, lo, hi) ==
  IF IsNaN(x) THEN NaN
  ELSE IF FLe(x, lo) THEN lo
  ELSE IF FLe(hi, x) THEN hi
  ELSE x

\* the integer nearest to n/d (d > 0), halves to the even neighbour
RoundHalfEven(n, d) ==
  LET fl == n \div d
      r == n - fl * d
  IN  IF 2 * r < d THEN fl
      ELSE IF 2 * r > d THEN fl + 1
      ELSE IF fl % 2 = 0 THEN fl ELSE fl + 1

\* Series.round(1): rint(x * 10) / 10; NaN and the infinities pass through
Round1(x) ==
  IF ~IsFinite(x) THEN x
  ELSE Norm(RoundHalfEven(10 * x[1], x[2]), 10)

RECURSIVE Log2(_)
Log2(n) == IF n <= 1 THEN 0 ELSE 1 + Log2(n \div 2)

\* np.log1p on a cell holding 2^k - 1, in units of ln 2 (the scorer only
\* uses the quotient of two logarithms, which does not depend on the unit)
Log1p(x) == IF ~IsFinite(x) THEN x ELSE FromInt(Log2(x[1] + 1))

(***************************************************************************)
(* Tables and series.                                                      *)
(***************************************************************************)
\* df[name]
Col(tbl, name) == [i \in DOMAIN tbl |-> tbl[i][name]]

\* df[name] = series : adds the column, or overwrites it when present
WithColumn(tbl, name, series) ==
  [i \in DOMAIN tbl |->
     [c \in (DOMAIN tbl[i]) \cup {name} |->
        IF c = name THEN series[i] ELSE tbl[i][c]]]

\* Series.max(): NaN cells are skipped; NaN when nothing is left
SeriesMax(s) ==
  LET D == {i \in DOMAIN s : ~IsNaN(s[i])}
  IN  IF D = {} THEN NaN
      ELSE s[CHOOSE i \in D : \A j \in D : FLe(s[j], s[i])]

RECURSIVE SortedValues(_, _)
SortedValues(s, D) ==
  IF D = {} THEN <<>>
  ELSE LET m == CHOOSE i \in D : \A j \in D : FLe(s[i], s[j])
       IN  <<s[m]>> \o SortedValues(s, D \ {m})

\* Series.quantile(num/den) with linear interpolation between order statistics
Quantile(s, num, den) ==
  LET v == SortedValues(s, DOMAIN s)
      n == Len(v)
  IN  IF n = 0 THEN NaN
      ELSE LET pos == num * (n - 1)
               lo == pos \div den
               r == pos % den
               hi == IF r = 0 THEN lo ELSE lo + 1
           IN  FAdd(v[lo + 1],
                    FMul(FSub(v[hi + 1], v[lo + 1]), Norm(r, den)))

RECURSIVE Digits(_)
Digits(n) == IF n < 10 THEN <<n>> ELSE Append(Digits(n \div 10), n % 10)

RECURSIVE ZFill(_, _)
ZFill(s, width) == IF Len(s) >= width THEN s ELSE ZFill(<<0>> \o s, width)

NumericColumns == {"population", "median_income", "pct_college", "pct_white",
                   "median_age", "pct_over_65"}

\* pd.read_csv: numeric cells become floats
read_csv(csv) ==
  [i \in DOMAIN csv |->
     [c \in DOMAIN csv[i] |->
        IF c \in NumericColumns THEN FromInt(csv[i][c]) ELSE csv[i][c]]]

(***************************************************************************)
(* load_data                                                               *)
(***************************************************************************)
growth_demo_proxy(row) ==
  Round1(FAdd(
    FMul(FDiv(Clip(FSub(FromInt(50), row["median_age"]),
                   FromInt(0), FromInt(20)),
              FromInt(20)),
         FromInt(50)),
    FMul(FDiv(FSub(FromInt(100), row["pct_over_65"]), FromInt(100)),
         FromInt(50))))

load_data(csv) ==
  LET t0 == read_csv(csv)
      t1 == WithColumn(t0, "diversity",
              [i \in DOMAIN t0 |-> FSub(FromInt(100), t0[i]["pct_white"])])
      q == Quantile(Col(t1, "median_income"), 3, 4)
      t2 == WithColumn(t1, "affluent",
              [i \in DOMAIN t1 |-> FGe(t1[i]["median_income"], q)])
      t3 == WithColumn(t2, "growth_demo_proxy",
              [i \in DOMAIN t2 |-> growth_demo_proxy(t2[i])])
  IN  WithColumn(t3, "fips",
        [i \in DOMAIN t3 |-> ZFill(Digits(t3[i]["fips"]), FipsWidth)])

PreparedColumns == {"region", "population", "median_income", "pct_college",
                    "pct_white", "median_age", "pct_over_65", "fips",
                    "diversity", "affluent", "growth_demo_proxy"}

(***************************************************************************)
(* calculate_opportunity_score                                             *)
(***************************************************************************)
calculate_opportunity_score(tbl, wi, we, wd, ws, wa) ==
  LET income_max == SeriesMax(Col(tbl, "median_income"))
      college_max == SeriesMax(Col(tbl, "pct_college"))
      diversity_max == SeriesMax(Col(tbl, "diversity"))
      population_max == SeriesMax(Col(tbl, "population"))
      income_score(r) ==
        Clip(FDiv(r["median_income"], income_max), FromInt(0), FromInt(1))
      education_score(r) ==
        Clip(FDiv(r["pct_college"], college_max), FromInt(0), FromInt(1))
      diversity_score(r) ==
        Clip(FDiv(r["diversity"], diversity_max), FromInt(0), FromInt(1))
      size_score(r) ==
        Clip(FDiv(Log1p(r["population"]), Log1p(population_max)),
             FromInt(0), FromInt(1))
      age_score(r) ==
        FDiv(Clip(FSub(FromInt(50), r["median_age"]), FromInt(0), FromInt(20)),
             FromInt(20))
      total_weight == wi + we + wd + ws + wa
      weighted(r) ==
        FAdd(FAdd(FAdd(FAdd(FMul(income_score(r), FromInt(wi)),
                            FMul(education_score(r), FromInt(we))),
                       FMul(diversity_score(r), FromInt(wd))),
                  FMul(size_score(r), FromInt(ws))),
             FMul(age_score(r), FromInt(wa)))
  IN  [i \in DOMAIN tbl |->
         Round1(FMul(FDiv(weighted(tbl[i]), FromInt(total_weight)),
                     FromInt(100)))]

(***************************************************************************)
(* The script body: one run from top to bottom.                            *)
(***************************************************************************)
\* variant: both thresholds compared with > instead of >=
mark_high_opportunity_strict(tbl, it, gd) ==
  WithColumn(tbl, "high_opportunity",
    [i \in DOMAIN tbl |->
       FGt(tbl[i]["median_income"], FromInt(it))
       /\ FGt(tbl[i]["growth_demo_proxy"], FromInt(gd))])

\* variant: the flag is assigned to the existing column 'affluent' as well
mark_high_opportunity_overwrites(tbl, it, gd) ==
  LET flag == [i \in DOMAIN tbl |->
                 FGe(tbl[i]["median_income"], FromInt(it))
                 /\ FGe(tbl[i]["growth_demo_proxy"], FromInt(gd))]
  IN  WithColumn(WithColumn(tbl, "affluent", flag), "high_opportunity", flag)

\* df['high_opportunity'] = (income >= threshold) & (growth >= minimum)
mark_high_opportunity(tbl, it, gd) ==
  WithColumn(tbl, "high_opportunity",
    [i \in DOMAIN tbl |->
       FGe(tbl[i]["median_income"], FromInt(it))
       /\ FGe(tbl[i]["growth_demo_proxy"], FromInt(gd))])

\* df['region'].dropna().unique()
all_regions(tbl) == {tbl[i]["region"] : i \in DOMAIN tbl} \ {NoRegion}

\* variant: the isin() mask is applied even when nothing is selected
apply_filters_unguarded(tbl, sel) ==
  [i \in {j \in DOMAIN tbl : tbl[j]["region"] \in sel} |-> tbl[i]]

\* variant: the affluent flag is recomputed on the filtered view
apply_filters_requantile(tbl, sel) ==
  LET view == IF sel # {}
              THEN [i \in {j \in DOMAIN tbl : tbl[j]["region"] \in sel} |-> tbl[i]]
              ELSE tbl
      q == Quantile(Col(view, "median_income"), 3, 4)
  IN  WithColumn(view, "affluent",
        [i \in DOMAIN view |-> FGe(view[i]["median_income"], q)])

\* filtered = df.copy(); if selected_regions: filtered = filtered[isin(...)]
apply_filters(tbl, sel) ==
  IF sel # {}
  THEN [i \in {j \in DOMAIN tbl : tbl[j]["region"] \in sel} |-> tbl[i]]
  ELSE tbl

\* st.cache_data hands every run its own copy of the memoised table
cached_load_data(memo) == memo

\* variant: the score is computed on the filtered view, after APPLY FILTERS
RunScript_ScoreAfterFilter(memo, p, d, f, it, gd, sel, wi, we, wd, ws, wa) ==
  /\ p = memo
  /\ d = LET marked == mark_high_opportunity(p, it, gd)
         IN  WithColumn(marked, "opportunity_score",
               calculate_opportunity_score(marked, wi, we, wd, ws, wa))
  /\ f = LET view == apply_filters(mark_high_opportunity(p, it, gd), sel)
         IN  WithColumn(view, "opportunity_score",
               calculate_opportunity_score(view, wi, we, wd, ws, wa))

\* one run of the script on the widget values given: p is the table
\* load_data() returns, d is df once both columns are assigned, f is filtered
RunScript(memo, p, d, f, it, gd, sel, wi, we, wd, ws, wa) ==
  /\ p = cached_load_data(memo)
  /\ d = LET marked == mark_high_opportunity(p, it, gd)
         IN  WithColumn(marked, "opportunity_score",
               calculate_opportunity_score(marked, wi, we, wd, ws, wa))
  /\ f = apply_filters(d, sel)

\* the rerun a widget change triggers, with the new widget values
Rerun(it, gd, sel, wi, we, wd, ws, wa) ==
  /\ UNCHANGED <<census, cache>>
  /\ RunScript(cache, prepared', df', filtered',
               it, gd, sel, wi, we, wd, ws, wa)

\* first run of a session: load_data misses the cache and reads the file
Init ==
  /\ census \in CensusFiles
  /\ cache = load_data(census)
  /\ income_threshold = DefaultIncomeThreshold
  /\ growth_demo_min = DefaultGrowthDemoMin
  /\ selected_regions = all_regions(cache)
  /\ w_income = DefaultWIncome
  /\ w_education = DefaultWEducation
  /\ w_diversity = DefaultWDiversity
  /\ w_size = DefaultWSize
  /\ w_age = DefaultWAge
  /\ RunScript(cache, prepared, df, filtered,
               income_threshold, growth_demo_min, selected_regions,
               w_income, w_education, w_diversity, w_size, w_age)

SetIncomeThreshold ==
  \E v \in IncomeThresholdValues \ {income_threshold} :
    /\ income_threshold' = v
    /\ UNCHANGED <<growth_demo_min, selected_regions,
                   w_income, w_education, w_diversity, w_size, w_age>>
    /\ Rerun(v, growth_demo_min, selected_regions,
             w_income, w_education, w_diversity, w_size, w_age)

SetGrowthDemoMin ==
  \E v \in GrowthDemoMinValues \ {growth_demo_min} :
    /\ growth_demo_min' = v
    /\ UNCHANGED <<income_threshold, selected_regions,
                   w_income, w_education, w_diversity, w_size, w_age>>
    /\ Rerun(income_threshold, v, selected_regions,
             w_income, w_education, w_diversity, w_size, w_age)

SelectRegions ==
  \E sel \in (SUBSET all_regions(df)) \ {selected_regions} :
    /\ selected_regions' = sel
    /\ UNCHANGED <<income_threshold, growth_demo_min,
                   w_income, w_education, w_diversity, w_size, w_age>>
    /\ Rerun(income_threshold, growth_demo_min, sel,
             w_income, w_education, w_diversity, w_size, w_age)

SetWIncome ==
  \E v \in WIncomeValues \ {w_income} :
    /\ w_income' = v
    /\ UNCHANGED <<income_threshold, growth_demo_min, selected_regions,
                   w_education, w_diversity, w_size, w_age>>
    /\ Rerun(income_threshold, growth_demo_min, selected_regions,
             v, w_education, w_diversity, w_size, w_age)

SetWEducation ==
  \E v \in WEducationValues \ {w_education} :
    /\ w_education' = v
    /\ UNCHANGED <<income_threshold, growth_demo_min, selected_regions,
                   w_income, w_diversity, w_size, w_age>>
    /\ Rerun(income_threshold, growth_demo_min, selected_regions,
             w_income, v, w_diversity, w_size, w_age)

SetWDiversity ==
  \E v \in WDiversityValues \ {w_diversity} :
    /\ w_diversity' = v
    /\ UNCHANGED <<income_threshold, growth_demo_min, selected_regions,
                   w_income, w_education, w_size, w_age>>
    /\ Rerun(income_threshold, growth_demo_min, selected_regions,
             w_income, w_education, v, w_size, w_age)

SetWSize ==
  \E v \in WSizeValues \ {w_size} :
    /\ w_size' = v
    /\ UNCHANGED <<income_threshold, growth_demo_min, selected_regions,
                   w_income, w_education, w_diversity, w_age>>
    /\ Rerun(income_threshold, growth_demo_min, selected_regions,
             w_income, w_education, w_diversity, v, w_age)

SetWAge ==
  \E v \in WAgeValues \ {w_age} :
    /\ w_age' = v
    /\ UNCHANGED <<income_threshold, growth_demo_min, selected_regions,
                   w_income, w_education, w_diversity, w_size>>
    /\ Rerun(income_threshold, growth_demo_min, selected_regions,
             w_income, w_education, w_diversity, w_size, v)

Next ==
  \/ SetIncomeThreshold
  \/ SetGrowthDemoMin
  \/ SelectRegions
  \/ SetWIncome
  \/ SetWEducation
  \/ SetWDiversity
  \/ SetWSize
  \/ SetWAge

Spec == Init /\ [][Next]_vars

(***************************************************************************)
(* Properties.                                                             *)
(***************************************************************************)
TotalWeight == w_income + w_education + w_diversity + w_size + w_age

\* the finite cell x is at least the integer k
AtLeast(x, k) == IsFinite(x) /\ x[1] >= k * x[2]
\* the finite cell x is at most the integer k
AtMost(x, k) == IsFinite(x) /\ x[1] <= k * x[2]

DefaultWeights ==
  /\ w_income = DefaultWIncome
  /\ w_education = DefaultWEducation
  /\ w_diversity = DefaultWDiversity
  /\ w_size = DefaultWSize
  /\ w_age = DefaultWAge

\* some max(...) denominator of the scorer is 0 on the scored table
ZeroDenominator ==
  \/ SeriesMax(Col(df, "median_income")) = FromInt(0)
  \/ SeriesMax(Col(df, "pct_college")) = FromInt(0)
  \/ SeriesMax(Col(df, "diversity")) = FromInt(0)
  \/ SeriesMax(Col(df, "population")) = FromInt(0)

\* C1: with non-negative weights and total_weight > 0, every record's
\* opportunity_score s satisfies 0 <= s <= 100.
C1_ScoreInRange ==
  TotalWeight > 0 =>
    \A i \in DOMAIN df :
      AtLeast(df[i]["opportunity_score"], 0)
      /\ AtMost(df[i]["opportunity_score"], 100)

\* C2: when all five weights are zero, every record gets a well-defined
\* composite score: no NaN and no infinity reaches opportunity_score.
C2_ZeroWeightsDefined ==
  TotalWeight = 0 =>
    \A i \in DOMAIN df : IsFinite(df[i]["opportunity_score"])

\* C7: when a max(...) normalization denominator is 0 (and the weights are
\* usable), a fallback is applied and no undefined value reaches any
\* record's composite score.
C7_ZeroDenominatorFallback ==
  (TotalWeight > 0 /\ ZeroDenominator) =>
    \A i \in DOMAIN df : ~IsNaN(df[i]["opportunity_score"])

\* number of records scoring strictly higher than record h
Rank(scores, h) ==
  Cardinality({i \in DOMAIN scores : FGt(scores[i], scores[h])})

HighestIncome ==
  {h \in DOMAIN df :
     df[h]["median_income"] = SeriesMax(Col(df, "median_income"))}

\* C8: raising w_income with the other weights held fixed (total_weight > 0
\* before and after) never worsens the rank of the highest-income record.
C8_RankMonotoneInWIncome ==
  \A w2 \in WIncomeValues :
    (w2 > w_income /\ TotalWeight > 0) =>
      \A h \in HighestIncome :
        Rank(calculate_opportunity_score(df, w2, w_education, w_diversity,
                                         w_size, w_age), h)
          <= Rank(Col(df, "opportunity_score"), h)

\* C9: under weights (35, 25, 15, 15, 10) a record holding the maximum
\* median_income, pct_college, diversity and population of the scored set,
\* with median_age = 30, scores exactly 100.0.
C9_AllMaximaScore100 ==
  DefaultWeights =>
    \A i \in DOMAIN df :
      ( /\ df[i]["median_income"] = SeriesMax(Col(df, "median_income"))
        /\ df[i]["pct_college"] = SeriesMax(Col(df, "pct_college"))
        /\ df[i]["diversity"] = SeriesMax(Col(df, "diversity"))
        /\ df[i]["population"] = SeriesMax(Col(df, "population"))
        /\ df[i]["median_age"] = FromInt(30) )
      => df[i]["opportunity_score"] = FromInt(100)

\* the scorer applied to exactly the table given, under the current weights
ScoreOf(tbl) ==
  calculate_opportunity_score(tbl, w_income, w_education, w_diversity,
                              w_size, w_age)

\* C3 (as claimed): every visible record's opportunity_score is the score the
\* scorer gives it when applied to exactly the filtered record set.
C3_ScoredOverFilteredSet ==
  \A i \in DOMAIN filtered :
    filtered[i]["opportunity_score"] = ScoreOf(filtered)[i]

\* C3 (amended): every visible record's opportunity_score is the score the
\* scorer gives it when applied to the full loaded dataset, whatever the
\* region selection.
C3_ScoredOverFullDataset ==
  \A i \in DOMAIN filtered :
    filtered[i]["opportunity_score"] = ScoreOf(cache)[i]

\* a region selection hides records, and a visible record's score differs
\* from what the scorer gives it on the visible set alone
C3_Witness ==
  /\ selected_regions # {}
  /\ DOMAIN filtered # DOMAIN df
  /\ \E i \in DOMAIN filtered :
       /\ IsFinite(filtered[i]["opportunity_score"])
       /\ IsFinite(ScoreOf(filtered)[i])
       /\ filtered[i]["opportunity_score"] # ScoreOf(filtered)[i]

\* C4: high_opportunity is true exactly when median_income >= income_threshold
\* and growth_demo_proxy >= growth_demo_min, equality included.
C4_HighOpportunityIff ==
  /\ \A i \in DOMAIN df :
       df[i]["high_opportunity"] =
         ( AtLeast(df[i]["median_income"], income_threshold)
           /\ AtLeast(df[i]["growth_demo_proxy"], growth_demo_min) )
  /\ \A i \in DOMAIN filtered :
       filtered[i]["high_opportunity"] = df[i]["high_opportunity"]

\* a record sits exactly on both thresholds and is classified true
C4_Witness ==
  \E i \in DOMAIN df :
    /\ df[i]["median_income"] = FromInt(income_threshold)
    /\ df[i]["growth_demo_proxy"] = FromInt(growth_demo_min)
    /\ df[i]["high_opportunity"] = TRUE

\* the 75th percentile of median_income over the whole census file
CensusIncomeQuantile ==
  Quantile([i \in DOMAIN census |-> FromInt(census[i]["median_income"])], 3, 4)

TopQuartile(i) ==
  FGe(FromInt(census[i]["median_income"]), CensusIncomeQuantile)

\* C5: in every state, whatever regions, thresholds and weights were chosen,
\* each record's affluent flag (in df and in the filtered view) is the one
\* fixed by the 75th percentile of median_income over the whole dataset.
C5_AffluentFixedAtLoad ==
  /\ \A i \in DOMAIN df : df[i]["affluent"] = TopQuartile(i)
  /\ \A i \in DOMAIN filtered : filtered[i]["affluent"] = TopQuartile(i)

\* a region selection hides records, and the percentile of the visible
\* subset would classify a visible record differently
C5_Witness ==
  /\ selected_regions # {}
  /\ DOMAIN filtered # DOMAIN df
  /\ \E i \in DOMAIN filtered :
       filtered[i]["affluent"] #
         FGe(filtered[i]["median_income"],
             Quantile(Col(filtered, "median_income"), 3, 4))

\* C6 (as claimed): the table load_data() returned is never mutated in place:
\* df still equals it after the script ran.
C6_LoadedTableNotMutated == df = prepared

\* C6 (amended): no run changes the cached prepared dataset or any prepared
\* column of any record; the run only adds the columns high_opportunity and
\* opportunity_score to df, the table load_data() returned.
C6_PreparedColumnsIntact ==
  /\ cache = load_data(census)
  /\ prepared = cache
  /\ DOMAIN df = DOMAIN cache
  /\ \A i \in DOMAIN df :
       /\ DOMAIN df[i] = PreparedColumns \cup {"high_opportunity", "opportunity_score"}
       /\ \A c \in PreparedColumns : df[i][c] = cache[i][c]

\* thresholds and weights were all changed, and df carries derived columns
\* the loaded table does not have
C6_Witness ==
  /\ income_threshold # DefaultIncomeThreshold
  /\ growth_demo_min # DefaultGrowthDemoMin
  /\ w_income # DefaultWIncome
  /\ DOMAIN df # {}
  /\ df # prepared
  /\ \E i \in DOMAIN df : df[i]["high_opportunity"] # df[i]["affluent"]

\* C10: a record is in the filtered view iff nothing is selected or its
\* region is selected; so an empty selection shows every record, a
\* non-empty one hides the records without a region, and the view of a
\* non-empty dataset is never empty.
C10_RegionFilter ==
  /\ selected_regions \subseteq all_regions(df)
  /\ DOMAIN filtered =
       {i \in DOMAIN df :
          selected_regions = {} \/ df[i]["region"] \in selected_regions}
  /\ \A i \in DOMAIN filtered : filtered[i] = df[i]
  /\ selected_regions = {} => DOMAIN filtered = DOMAIN df
  /\ selected_regions # {} =>
       \A i \in DOMAIN filtered : filtered[i]["region"] # NoRegion
  /\ DOMAIN df # {} => DOMAIN filtered # {}

\* every region was deselected in a dataset that has regions, and a record
\* without a region is visible
C10_Witness ==
  /\ selected_regions = {}
  /\ all_regions(df) # {}
  /\ \E i \in DOMAIN filtered : filtered[i]["region"] = NoRegion

====
